---- MODULE Spec2Model ----
(***************************************************************************)
(* Model of flashcard_generator.py: the three word-list files, the         *)
(* single-slot prefetch pipeline of _main (main thread + executor worker)  *)
(* and the interactive selector.  Text is modelled as sequences of Unicode *)
(* code points, so that split / readlines / strip / isdigit / int behave   *)
(* as the Python functions do.                                             *)
(***************************************************************************)
EXTENDS Naturals, Integers, Sequences, FiniteSets, TLC

VARIABLES
  pendingFile,        \* content of words_pending.txt
  doneFile,           \* content of words_done.txt
  skippedFile,        \* content of words_skipped.txt
  notes,              \* notes added to the Anki collection, in order
  collection,         \* which names the collection resolves (deck, models)
  NEW_WORDS,          \* the _NEW_WORDS text
  pc,                 \* position of the main thread
  pending_words,      \* _main: the loaded list
  i,                  \* _main: loop index
  futures,            \* the live Future objects, by submission number
  completion_future,  \* _main: the Future it holds (0 = none yet)
  completion,         \* _main: the retrieved result
  flashcards,         \* selector: number of candidates of the parsed response
  user_input,         \* selector: the last line read
  j,                  \* selector: position in the creation loop
  printed,            \* selector: character named by the last "Invalid input"
  submitted,          \* history: number of calls submitted
  retrieved,          \* history: number of results retrieved
  reviewsBegun,       \* history: number of interactive reviews begun
  reviewLog,          \* history: effects of the current review, in order
  start,              \* history: the files when the run started
  ingested,           \* history: the files when the pipeline started
  pre,                \* history: files and notes when the current review began
  arg                 \* argument of the function under test (unit runs)

vars == <<pendingFile, doneFile, skippedFile, notes, collection, NEW_WORDS, pc,
          pending_words, i, futures, completion_future, completion, flashcards,
          user_input, j, printed, submitted, retrieved, reviewsBegun, reviewLog,
          start, ingested, pre, arg>>

(***************************************************************************)
(* Bounds                                                                  *)
(***************************************************************************)
MaxFileLen == 2     \* characters in the initial pending file
MaxCards == 2       \* candidates in a model response
MaxInputLen == 2    \* characters in one line of user input
MaxWordLen == 2     \* characters of the word argument in unit runs
MaxTextLen == 4     \* characters of the word_string argument in unit runs

(***************************************************************************)
(* Characters (code points)                                                *)
(***************************************************************************)
NL == 10            \* "\n"
SP == 32            \* " "
HASH == 35          \* "#"
LA == 97            \* "a", a non-kana character
KA == 12354         \* U+3042, a hiragana character

FileChars == {LA, KA, SP, NL}
InputChars == {48, 49, 50, 120, 178}    \* "0" "1" "2" "x" and superscript two

\* str.isspace / the characters str.strip() and str.split() treat as blank
IsSpace(c) ==
  c \in {9, 10, 11, 12, 13, 28, 29, 30, 31, 32, 133, 160, 5760, 8232, 8233, 8239,
         8287, 12288} \cup (8192..8202)

\* str.isdigit: Numeric_Type Decimal or Digit (ASCII digits, superscript
\* digits, full-width digits)
IsDigit(c) == c \in (48..57) \cup {178, 179, 185} \cup (65296..65305)

\* int(c) for a one-character string: defined on decimal digits only
IntDefined(c) == c \in (48..57) \cup (65296..65305)
IntOf(c) == IF c \in 48..57 THEN c - 48 ELSE c - 65296

(***************************************************************************)
(* String functions                                                        *)
(***************************************************************************)
RECURSIVE Strings(_, _)
Strings(S, n) ==
  IF n = 0 THEN {<<>>}
  ELSE LET shorter == Strings(S, n - 1)
       IN shorter \cup {<<c>> \o s : c \in S, s \in {t \in shorter : Len(t) = n - 1}}

IndexOfNL(s) == CHOOSE k \in 1..Len(s) : s[k] = NL /\ \A m \in 1..(k - 1) : s[m] # NL
HasNL(s) == \E k \in 1..Len(s) : s[k] = NL

\* s.split("\n")
RECURSIVE SplitLines(_)
SplitLines(s) ==
  IF ~HasNL(s) THEN <<s>>
  ELSE LET k == IndexOfNL(s)
       IN <<SubSeq(s, 1, k - 1)>> \o SplitLines(SubSeq(s, k + 1, Len(s)))

\* f.readlines(): lines keep their terminating "\n"
RECURSIVE ReadLines(_)
ReadLines(s) ==
  IF s = <<>> THEN <<>>
  ELSE IF ~HasNL(s) THEN <<s>>
  ELSE LET k == IndexOfNL(s)
       IN <<SubSeq(s, 1, k)>> \o ReadLines(SubSeq(s, k + 1, Len(s)))

\* f.writelines(lines)
RECURSIVE WriteLines(_)
WriteLines(lines) ==
  IF lines = <<>> THEN <<>> ELSE Head(lines) \o WriteLines(Tail(lines))

RECURSIVE LStrip(_)
LStrip(s) == IF s # <<>> /\ IsSpace(Head(s)) THEN LStrip(Tail(s)) ELSE s

RECURSIVE RStrip(_)
RStrip(s) ==
  IF s # <<>> /\ IsSpace(s[Len(s)]) THEN RStrip(SubSeq(s, 1, Len(s) - 1)) ELSE s

\* s.strip()
Strip(s) == RStrip(LStrip(s))

\* is_kana looking at the first character only
is_kanaFirstOnly(s) ==
  s = <<>> \/ (12352 <= s[1] /\ s[1] <= 12447) \/ (12448 <= s[1] /\ s[1] <= 12543)

\* is_kana(s)
is_kana(s) ==
  \A k \in 1..Len(s) : (12352 <= s[k] /\ s[k] <= 12447) \/ (12448 <= s[k] /\ s[k] <= 12543)

\* _load_pending_words_from_file
LoadPendingWordsFromFile(content) == SplitLines(content)

\* the comparison of line 102 without the strip()
KeepLineNoStrip(line, word) == line # word

\* the predicate of the list comprehension in _remove_word_from_pending_file
KeepLine(line, word) == Strip(line) # word

\* _remove_word_from_pending_file: the new content of the pending file
RemoveWordFromPendingFile(content, word) ==
  WriteLines(SelectSeq(ReadLines(content), LAMBDA line : KeepLine(line, word)))

\* f.write(word + "\n") on a file opened for append
AppendWord(content, word) == content \o word \o <<NL>>

\* line.strip().split()[0] for a line whose strip() is not empty
RECURSIVE FirstToken(_)
FirstToken(t) ==
  IF t = <<>> \/ IsSpace(Head(t)) THEN <<>> ELSE <<Head(t)>> \o FirstToken(Tail(t))

\* the condition of line 54 without the test for comments
IsWordLineKeepComments(line) == Strip(line) # <<>>

\* the condition of the list comprehension in _get_new_words_from_multiline_string
IsWordLine(line) == Strip(line) # <<>> /\ Head(Strip(line)) # HASH

\* set(words) in _get_new_words_from_multiline_string
NewWordSet(word_string) ==
  LET lines == SplitLines(word_string)
  IN {FirstToken(Strip(lines[k])) : k \in {m \in 1..Len(lines) : IsWordLine(lines[m])}}

\* the orders random.shuffle can leave a list of the elements of S in
Shuffles(S) ==
  {p \in [1..Cardinality(S) -> S] : \A a, b \in 1..Cardinality(S) : p[a] = p[b] => a = b}

\* _get_new_words_from_multiline_string: the possible results
GetNewWordsFromMultilineString(word_string) == Shuffles(NewWordSet(word_string))

InList(word, list) == \E k \in 1..Len(list) : list[k] = word

\* _append_new_pending_words_to_file: the new content of the pending file
RECURSIVE AppendNewPendingWordsToFile(_, _, _)
AppendNewPendingWordsToFile(content, new_words, existing_words) ==
  IF new_words = <<>> THEN content
  ELSE AppendNewPendingWordsToFile(
         IF InList(Head(new_words), existing_words) THEN content
         ELSE AppendWord(content, Head(new_words)),
         Tail(new_words), existing_words)

\* the validation loop of _create_flashcard_interactively, from character k on
RECURSIVE ValidateFrom(_, _, _, _)
ValidateFrom(inp, k, seen, count) ==
  IF k > Len(inp) THEN [outcome |-> "valid", c |-> 0]
  ELSE LET c == inp[k]
       IN IF ~IsDigit(c) THEN [outcome |-> "invalid", c |-> c]
          ELSE IF ~IntDefined(c) THEN [outcome |-> "ValueError", c |-> c]
          ELSE IF IntOf(c) > count \/ IntOf(c) = 0 \/ IntOf(c) \in seen
               THEN [outcome |-> "invalid", c |-> c]
          ELSE ValidateFrom(inp, k + 1, seen \cup {IntOf(c)}, count)

Validate(inp, count) == ValidateFrom(inp, 1, {}, count)

\* prompt_path chosen by _request_flashcards_from_llm
PromptPath(word) == IF is_kana(word) THEN "basic_prompt.txt" ELSE "cloze_prompt.txt"

\* the candidate flashcards[int(c) - 1] of a parsed response
Flashcard(compl, n) ==
  [example_sentence |-> <<"example_sentence", compl.word, compl.prompt_path, n>>,
   english |-> <<"english", compl.word, compl.prompt_path, n>>]

\* the note for one selected character c, indexing without the "- 1"
NoteForNoOffset(word, compl, c) ==
  LET flashcard == Flashcard(compl, IntOf(c) + 1)
  IN IF is_kana(word)
     THEN [model |-> "Japanese Reading", deck |-> "Japanese",
           fields |-> [Expression |-> flashcard.example_sentence,
                       Meaning |-> flashcard.english]]
     ELSE [model |-> "Japanese Cloze", deck |-> "Japanese",
           fields |-> [Expression |-> flashcard.example_sentence,
                       Extra |-> flashcard.english]]

\* the note built and added for one selected character c
NoteFor(word, compl, c) ==
  LET flashcard == Flashcard(compl, IntOf(c))
  IN IF is_kana(word)
     THEN [model |-> "Japanese Reading", deck |-> "Japanese",
           fields |-> [Expression |-> flashcard.example_sentence,
                       Meaning |-> flashcard.english]]
     ELSE [model |-> "Japanese Cloze", deck |-> "Japanese",
           fields |-> [Expression |-> flashcard.example_sentence,
                       Extra |-> flashcard.english]]

\* executor.submit(_request_flashcards_from_llm, word)
NoCompletion == [kind |-> "none", count |-> 0, word |-> <<>>, prompt_path |-> ""]
NewFuture(word) == [word |-> word, state |-> "PENDING", prompt_path |-> "", result |-> NoCompletion]

\* what a call of the chat API can come back with
Results(word, prompt_path) ==
  {[kind |-> "ok", count |-> n, word |-> word, prompt_path |-> prompt_path] : n \in 0..MaxCards}
  \cup {[kind |-> "malformed", count |-> 0, word |-> word, prompt_path |-> prompt_path],
        [kind |-> "raise", count |-> 0, word |-> word, prompt_path |-> prompt_path]}

Files == [pending |-> pendingFile, done |-> doneFile, skipped |-> skippedFile, notes |-> notes]


(***************************************************************************)
(* The run of _main                                                        *)
(***************************************************************************)
InitDoneFiles == {<<LA, NL>>}
InitSkippedFiles == {<<>>}
NewWordsTexts == {<<NL>>}             \* _NEW_WORDS as the source sets it

\* what the pending file can hold at start, and what input() can return
InitPendingFiles == Strings(FileChars, MaxFileLen)
InputLines == Strings(InputChars, MaxInputLen)

\* the word of the next list entry (the last entry again at the end)
NextWord == pending_words[IF i + 2 <= Len(pending_words) THEN i + 2 ELSE i + 1]

Word == pending_words[i + 1]          \* pending_words[i]

fixedVars == <<collection, NEW_WORDS, start, arg>>
fileVars == <<pendingFile, doneFile, skippedFile, notes>>
execVars == <<futures, completion_future, submitted>>
selVars == <<flashcards, user_input, j, printed>>

Init ==
  /\ pendingFile \in InitPendingFiles
  /\ doneFile \in InitDoneFiles
  /\ skippedFile \in InitSkippedFiles
  /\ notes = <<>>
  /\ collection \in [deck : BOOLEAN, cloze : BOOLEAN, basic : BOOLEAN]
  /\ NEW_WORDS \in NewWordsTexts
  /\ pc = "start"
  /\ pending_words = <<>>
  /\ i = 0
  /\ futures = <<>>
  /\ completion_future = 0
  /\ submitted = 0
  /\ completion = NoCompletion
  /\ flashcards = 0
  /\ user_input = <<>>
  /\ j = 0
  /\ printed = 0
  /\ retrieved = 0
  /\ reviewsBegun = 0
  /\ reviewLog = <<>>
  /\ start = Files
  /\ ingested = Files
  /\ pre = Files
  /\ arg = <<>>

\* the checks of lines 180-187 without the one for the basic note type
ConfigFoundNoBasic(c) == c.deck /\ c.cloze

\* the three lookups of lines 179-187 all return an id
ConfigFound(c) == c.deck /\ c.cloze /\ c.basic

\* _main, lines 177-189: look the deck and the two note types up
LoadCollection ==
  /\ pc = "start"
  /\ pc' = IF ConfigFound(collection) THEN "ingest" ELSE "config_error"
  /\ UNCHANGED <<fixedVars, fileVars, execVars, selVars, pending_words, i,
                 completion, retrieved, reviewsBegun, reviewLog, ingested, pre>>

\* _main, lines 191-196: merge the new words into the pending file and load it
Ingest ==
  /\ pc = "ingest"
  /\ \E constant_words \in GetNewWordsFromMultilineString(NEW_WORDS) :
       LET loaded == LoadPendingWordsFromFile(pendingFile)
           content == IF constant_words # <<>>
                      THEN AppendNewPendingWordsToFile(pendingFile, constant_words, loaded)
                      ELSE pendingFile
       IN /\ pendingFile' = content
          /\ pending_words' = LoadPendingWordsFromFile(content)
          /\ ingested' = [Files EXCEPT !.pending = content]
  /\ pc' = "check"
  /\ UNCHANGED <<fixedVars, doneFile, skippedFile, notes, execVars, selVars, i,
                 completion, retrieved, reviewsBegun, reviewLog, pre>>

\* executor.submit(_request_flashcards_from_llm, word) assigned to
\* completion_future: the Future it held before is unreferenced, and is
\* reclaimed once its call has finished
Submit(word) ==
  LET id == submitted + 1
      live == {k \in DOMAIN futures :
                 ~(k = completion_future /\ futures[k].state = "FINISHED")}
  IN /\ futures' = [k \in live \cup {id} |->
                      IF k = id THEN NewFuture(word) ELSE futures[k]]
     /\ completion_future' = id
     /\ submitted' = id

\* _main, lines 199-205: stop if nothing is pending, else submit the first request
StartPipeline ==
  /\ pc = "check"
  /\ IF pending_words = <<>>
     THEN /\ pc' = "finished"
          /\ UNCHANGED execVars
     ELSE /\ Submit(pending_words[1])
          /\ pc' = "result"
  /\ UNCHANGED <<fixedVars, fileVars, selVars, pending_words, i, completion,
                 retrieved, reviewsBegun, reviewLog, ingested, pre>>

\* a result() that would not wait for the call
ResultReadyNoWait(f) == f.state \in {"PENDING", "RUNNING", "FINISHED"}

\* Future.result() returns only once the call has finished
ResultReady(f) == f.state = "FINISHED"

\* _main, line 209: completion = completion_future.result()
GetResult ==
  /\ pc = "result"
  /\ ResultReady(futures[completion_future])
  /\ retrieved' = retrieved + 1
  /\ IF futures[completion_future].result.kind = "raise"
     THEN /\ pc' = "request_failed"
          /\ UNCHANGED completion
     ELSE /\ completion' = futures[completion_future].result
          /\ pc' = "submit_next"
  /\ UNCHANGED <<fixedVars, fileVars, execVars, selVars, pending_words, i,
                 reviewsBegun, reviewLog, ingested, pre>>

\* the condition of line 212 with the bound one too small
HasNextOffByOne(idx, words) == idx + 2 < Len(words)

\* the condition of line 212
HasNext(idx, words) == idx + 1 < Len(words)

\* _main, lines 212-213: refill the look-ahead slot
SubmitNext ==
  /\ pc = "submit_next"
  /\ IF HasNext(i, pending_words)
     THEN Submit(pending_words[i + 2])
     ELSE UNCHANGED execVars
  /\ pc' = "review"
  /\ UNCHANGED <<fixedVars, fileVars, selVars, pending_words, i, completion,
                 retrieved, reviewsBegun, reviewLog, ingested, pre>>

\* _create_flashcard_interactively, lines 109-117: a new call (its locals are
\* fresh) parses the response and lists the candidates
BeginReview ==
  /\ pc = "review"
  /\ reviewsBegun' = reviewsBegun + 1
  /\ reviewLog' = <<>>
  /\ pre' = Files
  /\ user_input' = <<>>
  /\ j' = 0
  /\ printed' = 0
  /\ IF completion.kind = "malformed"
     THEN /\ pc' = "malformed_response"
          /\ flashcards' = 0
     ELSE /\ flashcards' = completion.count
          /\ pc' = "prompt"
  /\ UNCHANGED <<fixedVars, fileVars, execVars, pending_words, i, completion,
                 retrieved, ingested>>

\* _create_flashcard_interactively, lines 121-142: read one line and validate
\* it.  A line that is rejected is discarded by the continue (nothing of it is
\* used again), so the step leaves the state as it was.
Prompt ==
  /\ pc = "prompt"
  /\ \E inp \in InputLines :
       LET v == Validate(inp, flashcards)
       IN IF inp # <<>> /\ v.outcome = "invalid"
          THEN UNCHANGED <<pc, user_input, j>>
          ELSE /\ user_input' = inp
               /\ pc' = IF inp = <<>> THEN "skip_append"
                        ELSE IF v.outcome = "valid" THEN "create" ELSE "value_error"
               /\ j' = IF inp # <<>> /\ v.outcome = "valid" THEN 1 ELSE j
  /\ UNCHANGED <<fixedVars, fileVars, execVars, flashcards, printed, pending_words,
                 i, completion, retrieved, reviewsBegun, reviewLog, ingested, pre>>

\* lines 121-142 again, keeping the line read and the character that the
\* "Invalid input" message names, for the runs of the selector on its own
PromptRecorded ==
  /\ pc = "prompt"
  /\ \E inp \in InputLines :
       /\ user_input' = inp
       /\ IF inp = <<>>
          THEN /\ pc' = "skip_append"
               /\ j' = j
               /\ printed' = 0
          ELSE LET v == Validate(inp, flashcards)
               IN /\ pc' = CASE v.outcome = "valid" -> "create"
                             [] v.outcome = "invalid" -> "prompt"
                             [] OTHER -> "value_error"
                  /\ j' = IF v.outcome = "valid" THEN 1 ELSE j
                  /\ printed' = IF v.outcome = "invalid" THEN v.c ELSE 0
  /\ UNCHANGED <<fixedVars, fileVars, execVars, flashcards, pending_words, i,
                 completion, retrieved, reviewsBegun, reviewLog, ingested, pre>>

\* lines 127-128 writing to the done file instead
AppendSkippedToDone ==
  /\ pc = "skip_append"
  /\ doneFile' = AppendWord(doneFile, Word)
  /\ reviewLog' = Append(reviewLog, "skipped")
  /\ pc' = "skip_remove"
  /\ UNCHANGED <<fixedVars, pendingFile, skippedFile, notes, execVars, selVars,
                 pending_words, i, completion, retrieved, reviewsBegun, ingested,
                 pre>>

\* _create_flashcard_interactively, lines 127-128
AppendSkipped ==
  /\ pc = "skip_append"
  /\ skippedFile' = AppendWord(skippedFile, Word)
  /\ reviewLog' = Append(reviewLog, "skipped")
  /\ pc' = "skip_remove"
  /\ UNCHANGED <<fixedVars, pendingFile, doneFile, notes, execVars, selVars,
                 pending_words, i, completion, retrieved, reviewsBegun, ingested,
                 pre>>

\* where the loop of line 208 goes after the review of pending_words[idx]
AfterReview(idx, words) == IF idx + 1 < Len(words) THEN "result" ELSE "finished"

\* lines 129-130 and 163-165: remove the word and return, then line 208
\* advances the loop
RemoveAndReturn ==
  /\ pendingFile' = RemoveWordFromPendingFile(pendingFile, Word)
  /\ reviewLog' = Append(reviewLog, "remove")
  /\ i' = i + 1
  /\ pc' = AfterReview(i, pending_words)
  /\ UNCHANGED <<fixedVars, doneFile, skippedFile, notes, execVars, selVars,
                 pending_words, completion, retrieved, reviewsBegun, ingested, pre>>

RemoveSkipped == pc = "skip_remove" /\ RemoveAndReturn

\* _create_flashcard_interactively, lines 145-158: one pass of the creation loop
CreateFlashcard ==
  /\ pc = "create"
  /\ notes' = Append(notes, NoteFor(Word, completion, user_input[j]))
  /\ reviewLog' = Append(reviewLog, "note")
  /\ j' = j + 1
  /\ pc' = IF j = Len(user_input) THEN "done_append" ELSE "create"
  /\ UNCHANGED <<fixedVars, pendingFile, doneFile, skippedFile, execVars,
                 flashcards, user_input, printed, pending_words, i, completion,
                 retrieved, reviewsBegun, ingested, pre>>

\* _create_flashcard_interactively, lines 161-162
AppendDone ==
  /\ pc = "done_append"
  /\ doneFile' = AppendWord(doneFile, Word)
  /\ reviewLog' = Append(reviewLog, "done")
  /\ pc' = "done_remove"
  /\ UNCHANGED <<fixedVars, pendingFile, skippedFile, notes, execVars, selVars,
                 pending_words, i, completion, retrieved, reviewsBegun, ingested,
                 pre>>

RemoveDone == pc = "done_remove" /\ RemoveAndReturn

\* a worker thread of the executor takes the call and renders the prompt
\* (_request_flashcards_from_llm, lines 77-83)
WorkerRun(k) ==
  /\ futures[k].state = "PENDING"
  /\ futures' = [futures EXCEPT ![k].state = "RUNNING",
                                ![k].prompt_path = PromptPath(futures[k].word)]
  /\ UNCHANGED <<fixedVars, fileVars, completion_future, submitted, selVars, pc,
                 pending_words, i, completion, retrieved, reviewsBegun, reviewLog,
                 ingested, pre>>

\* the API call returns or raises (_request_flashcards_from_llm, lines 86-96)
WorkerFinish(k) ==
  /\ futures[k].state = "RUNNING"
  /\ \E r \in Results(futures[k].word, futures[k].prompt_path) :
       futures' = [futures EXCEPT ![k].state = "FINISHED", ![k].result = r]
  /\ UNCHANGED <<fixedVars, fileVars, completion_future, submitted, selVars, pc,
                 pending_words, i, completion, retrieved, reviewsBegun, reviewLog,
                 ingested, pre>>

Worker == \E k \in DOMAIN futures : WorkerRun(k) \/ WorkerFinish(k)

Next ==
  \/ LoadCollection
  \/ Ingest
  \/ StartPipeline
  \/ GetResult
  \/ SubmitNext
  \/ BeginReview
  \/ Prompt
  \/ AppendSkipped
  \/ RemoveSkipped
  \/ CreateFlashcard
  \/ AppendDone
  \/ RemoveDone
  \/ Worker

Spec == Init /\ [][Next]_vars

TypeOK == pc \in {"start", "config_error", "ingest", "check", "result", "request_failed",
                  "submit_next", "review", "malformed_response", "prompt", "value_error",
                  "skip_append", "skip_remove", "create", "done_append", "done_remove",
                  "finished"}

(***************************************************************************)
(* _create_flashcard_interactively on its own: the run at the call for the *)
(* first word (line 215), for any pending file and any response, the       *)
(* worker not yet having taken the look-ahead request                      *)
(***************************************************************************)
InitSelect ==
  /\ pendingFile \in InitPendingFiles
  /\ doneFile \in InitDoneFiles
  /\ skippedFile \in InitSkippedFiles
  /\ notes = <<>>
  /\ collection = [deck |-> TRUE, cloze |-> TRUE, basic |-> TRUE]
  /\ NEW_WORDS \in NewWordsTexts
  /\ pc = "review"
  /\ pending_words = LoadPendingWordsFromFile(pendingFile)
  /\ i = 0
  /\ completion \in {r \in Results(pending_words[1], PromptPath(pending_words[1])) :
                       r.kind # "raise"}
  /\ IF HasNext(0, pending_words)
     THEN /\ futures = [k \in {2} |-> NewFuture(pending_words[2])]
          /\ completion_future = 2
          /\ submitted = 2
     ELSE /\ futures = [k \in {1} |->
                         [word |-> pending_words[1], state |-> "FINISHED",
                          prompt_path |-> PromptPath(pending_words[1]),
                          result |-> completion]]
          /\ completion_future = 1
          /\ submitted = 1
  /\ flashcards = 0
  /\ user_input = <<>>
  /\ j = 0
  /\ printed = 0
  /\ retrieved = 1
  /\ reviewsBegun = 0
  /\ reviewLog = <<>>
  /\ start = Files
  /\ ingested = Files
  /\ pre = Files
  /\ arg = <<>>

NextSelect ==
  \/ BeginReview
  \/ PromptRecorded
  \/ AppendSkipped
  \/ RemoveSkipped
  \/ CreateFlashcard
  \/ AppendDone
  \/ RemoveDone

SpecSelect == InitSelect /\ [][NextSelect]_vars

(***************************************************************************)
(* Properties                                                              *)
(***************************************************************************)
N == Len(pending_words)

\* the main thread is inside the interactive review of pending_words[i]
InReview == pc \in {"prompt", "skip_append", "skip_remove", "create", "done_append",
                    "done_remove", "value_error", "malformed_response"}

\* C1: the request for word[i+1] is submitted strictly after the result for
\* word[i] has been retrieved (the n-th submission needs n-1 retrieved
\* results) and strictly before the review of word[i] begins (once the review
\* of word[k] has begun and k+1 < N, the request for word[k+1] has been
\* submitted, and it is the Future the main thread holds)
C1_PrefetchOrder ==
  /\ submitted <= retrieved + 1
  /\ \A k \in 0..(N - 1) :
       (reviewsBegun > k /\ k + 1 < N) => submitted >= k + 2
  /\ (InReview /\ i + 1 < N) =>
       /\ submitted = i + 2
       /\ completion_future = submitted
       /\ futures[completion_future].word = pending_words[i + 2]

\* the review of word[0] is under way and the request for word[1] is out
C1_Witness ==
  pc = "prompt" /\ i = 0 /\ N >= 2 /\ submitted = 2 /\ retrieved = 1 /\ reviewsBegun = 1

\* the calls submitted and not yet completed
Outstanding == {k \in DOMAIN futures : futures[k].state # "FINISHED"}

\* C2: in every reachable state at most one background request has been
\* submitted and not yet completed
C2_SingleSlot == Cardinality(Outstanding) <= 1

\* the worker is running the request for word[1] while word[0] is under review
C2_Witness ==
  /\ pc = "prompt" /\ i = 0 /\ N >= 2
  /\ Cardinality(Outstanding) = 1
  /\ \E k \in Outstanding : futures[k].state = "RUNNING" /\ futures[k].word = pending_words[2]

\* a line without its terminating "\n"
Chop(line) ==
  IF line # <<>> /\ line[Len(line)] = NL THEN SubSeq(line, 1, Len(line) - 1) ELSE line

\* the lines of a file, in order
Lines(content) == LET raw == ReadLines(content) IN [k \in 1..Len(raw) |-> Chop(raw[k])]
LineSet(content) == LET ls == Lines(content) IN {ls[k] : k \in 1..Len(ls)}

\* no line of the file is the word once trimmed
NoLineFor(content, word) == \A l \in LineSet(content) : Strip(l) # word

Count(seq, x) == Cardinality({k \in 1..Len(seq) : seq[k] = x})
Last(seq) == seq[Len(seq)]
Suffix(content, old) == SubSeq(content, Len(old) + 1, Len(content))

\* the review that reviewLog describes has returned; its word is pending_words[i - 1]
ReviewEnded == reviewLog # <<>> /\ Last(reviewLog) = "remove"
Reviewed == pending_words[i]

Gained == Suffix(skippedFile, ingested.skipped)

\* C4: after a complete run in which every review was answered with empty
\* input, the pending file is empty, the skipped file has gained exactly N
\* lines holding each word of the pending file exactly once, and the done file
\* is unchanged
C4_AllSkippedRun ==
  (pc = "finished" /\ notes = <<>>) =>
    /\ pendingFile = <<>>
    /\ SubSeq(skippedFile, 1, Len(ingested.skipped)) = ingested.skipped
    /\ Len(Lines(Gained)) = Len(Lines(ingested.pending))
    /\ \A w \in LineSet(ingested.pending) : Count(Lines(Gained), w) = 1
    /\ doneFile = ingested.done

\* the files in which the word is a line
FilesWith(w) ==
  (IF w \in LineSet(pendingFile) THEN {"pending"} ELSE {})
  \cup (IF w \in LineSet(doneFile) THEN {"done"} ELSE {})
  \cup (IF w \in LineSet(skippedFile) THEN {"skipped"} ELSE {})

\* the words that are lines of more than one file
Shared ==
  LET p == LineSet(pendingFile)
      d == LineSet(doneFile)
      k == LineSet(skippedFile)
  IN (p \cap d) \cup (p \cap k) \cup (d \cap k)

Disjoint(f) ==
  /\ LineSet(f.pending) \cap LineSet(f.done) = {}
  /\ LineSet(f.pending) \cap LineSet(f.skipped) = {}
  /\ LineSet(f.done) \cap LineSet(f.skipped) = {}

NewlineTerminated(content) == content = <<>> \/ Last(content) = NL

Appended ==
  {pending_words[k] : k \in 1..i}
  \cup (IF pc \in {"skip_remove", "done_remove"} THEN {pending_words[i + 1]} ELSE {})

Selectable(c, count) == c \in 49..57 /\ c - 48 <= count
ClaimAccepts(inp, count) ==
  /\ \A k \in 1..Len(inp) : Selectable(inp[k], count)
  /\ \A a, b \in 1..Len(inp) : inp[a] = inp[b] => a = b
Offending(inp, count, k) ==
  ~Selectable(inp[k], count) \/ \E m \in 1..(k - 1) : inp[m] = inp[k]
FirstOffending(inp, count) ==
  inp[CHOOSE k \in 1..Len(inp) :
        Offending(inp, count, k) /\ \A m \in 1..(k - 1) : ~Offending(inp, count, m)]

\* C6: a non-empty input is accepted iff every character is a digit in
\* 1..count and none occurs twice; otherwise the selector names the first
\* offending character and prompts again
C6_SelectionAccepted ==
  user_input # <<>> =>
    IF ClaimAccepts(user_input, flashcards)
    THEN pc \notin {"prompt", "value_error"}
    ELSE pc = "prompt" /\ printed = FirstOffending(user_input, flashcards)

\* C7: after an invalid selection string the selector prompts again and
\* neither the collection nor any of the three files has changed
C7_InvalidInputNoEffect ==
  (user_input # <<>> /\ ~ClaimAccepts(user_input, flashcards)) =>
    (pc = "prompt" /\ Files = pre)

WordChars == {LA, KA, SP}
UnitPendingFiles == Strings(FileChars, MaxFileLen + 2)
UnitWords == Strings(WordChars, MaxWordLen)

InitRemove ==
  /\ pendingFile \in UnitPendingFiles
  /\ arg \in UnitWords
  /\ doneFile = <<>>
  /\ skippedFile = <<>>
  /\ notes = <<>>
  /\ collection = [deck |-> TRUE, cloze |-> TRUE, basic |-> TRUE]
  /\ NEW_WORDS = <<NL>>
  /\ pc = "unit_remove"
  /\ pending_words = <<>>
  /\ i = 0
  /\ futures = <<>>
  /\ completion_future = 0
  /\ submitted = 0
  /\ completion = NoCompletion
  /\ flashcards = 0
  /\ user_input = <<>>
  /\ j = 0
  /\ printed = 0
  /\ retrieved = 0
  /\ reviewsBegun = 0
  /\ reviewLog = <<>>
  /\ start = Files
  /\ ingested = Files
  /\ pre = Files

\* _remove_word_from_pending_file(arg), lines 99-104
UnitRemove ==
  /\ pc = "unit_remove"
  /\ pendingFile' = RemoveWordFromPendingFile(pendingFile, arg)
  /\ pc' = "unit_removed"
  /\ UNCHANGED <<fixedVars, doneFile, skippedFile, notes, execVars, selVars,
                 pending_words, i, completion, retrieved, reviewsBegun, reviewLog,
                 ingested, pre>>

NextRemove == UnitRemove

SpecRemove == InitRemove /\ [][NextRemove]_vars

\* C10 as claimed: after remove_pending(w) no line of the pending file equals
\* w, and every other line is preserved, unchanged and in its original order
C10_RemovesEqualLines ==
  pc = "unit_removed" =>
    /\ arg \notin LineSet(pendingFile)
    /\ ReadLines(pendingFile) = SelectSeq(ReadLines(pre.pending), LAMBDA l : Chop(l) # arg)

\* C10 amended: after remove_pending(w) no line of the pending file has
\* trimmed content w, and every line whose trimmed content differs from w is
\* preserved, unchanged and in its original order
C10_RemovesTrimmedMatches ==
  pc = "unit_removed" =>
    /\ \A l \in LineSet(pendingFile) : Strip(l) # arg
    /\ ReadLines(pendingFile) = SelectSeq(ReadLines(pre.pending), LAMBDA l : Strip(Chop(l)) # arg)

\* a removal that took out a padded line and the word's own line and kept another
C10_Witness ==
  /\ pc = "unit_removed"
  /\ pendingFile # <<>>
  /\ \E l \in LineSet(pre.pending) : l # arg /\ Strip(l) = arg
  /\ arg \in LineSet(pre.pending)

\* the states from which the selector is run on its own
AtFirstReview ==
  /\ pc = "review" /\ i = 0
  /\ \A k \in DOMAIN futures : k # 1 => futures[k].state = "PENDING"

(***************************************************************************)
(* _append_new_pending_words_to_file on its own, and lines 191-196 run a   *)
(* second time over the file the first run left                            *)
(***************************************************************************)
AppendFileChars == {LA, KA, NL}
AppendFiles == Strings(AppendFileChars, MaxFileLen)
AppendTokens == {<<LA>>, <<KA>>}
WordLists == {<<>>} \cup {<<w>> : w \in AppendTokens}
             \cup {<<v, w>> : v \in AppendTokens, w \in AppendTokens}

InitAppend ==
  /\ pendingFile \in AppendFiles
  /\ \E nw \in WordLists, ew \in WordLists \cup {LoadPendingWordsFromFile(pendingFile)} :
       arg = [new_words |-> nw, existing_words |-> ew]
  /\ doneFile = <<>>
  /\ skippedFile = <<>>
  /\ notes = <<>>
  /\ collection = [deck |-> TRUE, cloze |-> TRUE, basic |-> TRUE]
  /\ NEW_WORDS = <<NL>>
  /\ pc = "unit_append"
  /\ pending_words = <<>>
  /\ i = 0
  /\ futures = <<>>
  /\ completion_future = 0
  /\ submitted = 0
  /\ completion = NoCompletion
  /\ flashcards = 0
  /\ user_input = <<>>
  /\ j = 0
  /\ printed = 0
  /\ retrieved = 0
  /\ reviewsBegun = 0
  /\ reviewLog = <<>>
  /\ start = Files
  /\ ingested = Files
  /\ pre = Files

\* _append_new_pending_words_to_file(new_words, existing_words), lines 68-73
UnitAppend ==
  /\ pc = "unit_append"
  /\ pendingFile' = AppendNewPendingWordsToFile(pendingFile, arg.new_words,
                                                arg.existing_words)
  /\ ingested' = [Files EXCEPT !.pending = pendingFile']
  /\ pc' = "unit_appended"
  /\ UNCHANGED <<fixedVars, doneFile, skippedFile, notes, execVars, selVars,
                 pending_words, i, completion, retrieved, reviewsBegun, reviewLog,
                 pre>>

\* the words of the list, each once
Distinct(list) == \A a, b \in 1..Len(list) : list[a] = list[b] => a = b
WordsOf(list) == {list[k] : k \in 1..Len(list)}

\* the first call was the one of line 194 (a non-empty duplicate-free
\* constant_words against the loaded file)
WasIngestion ==
  /\ arg.new_words # <<>>
  /\ Distinct(arg.new_words)
  /\ arg.existing_words = LoadPendingWordsFromFile(pre.pending)

\* lines 191-196 of the next run, _NEW_WORDS being the same: the same words
\* in any order, against the file as it is now
UnitIngestAgain ==
  /\ pc = "unit_appended"
  /\ WasIngestion
  /\ \E constant_words \in Shuffles(WordsOf(arg.new_words)) :
       pendingFile' = AppendNewPendingWordsToFile(
                        pendingFile, constant_words,
                        LoadPendingWordsFromFile(pendingFile))
  /\ pending_words' = LoadPendingWordsFromFile(pendingFile')
  /\ pc' = "unit_ingested_twice"
  /\ UNCHANGED <<fixedVars, doneFile, skippedFile, notes, execVars, selVars, i,
                 completion, retrieved, reviewsBegun, reviewLog, ingested, pre>>

NextAppend == UnitAppend \/ UnitIngestAgain

SpecAppend == InitAppend /\ [][NextAppend]_vars

\* C11: append_pending with new words that are all in existing_words leaves
\* the pending file unchanged, and a second ingestion of the same new words
\* leaves the file as the first ingestion left it
C11_AppendIdempotent ==
  /\ (pc = "unit_appended" /\ \A w \in WordsOf(arg.new_words) :
                                 InList(w, arg.existing_words)) =>
       pendingFile = pre.pending
  /\ pc = "unit_ingested_twice" => pendingFile = ingested.pending

\* the new words that append_pending has to write, in the order of new_words
ToAppend == SelectSeq(arg.new_words, LAMBDA w : ~InList(w, arg.existing_words))

\* C12: after append_pending every new word not in existing_words is a line
\* of its own, after the lines the file had, in the order of new_words, and
\* the lines the file had are unchanged, for any prior content
C12_AppendedAsLines ==
  pc = "unit_appended" => Lines(pendingFile) = Lines(pre.pending) \o ToAppend

(***************************************************************************)
(* Properties of the whole run, continued                                  *)
(***************************************************************************)
\* C13: the requests are numbered as they are submitted; the k-th is for
\* index k - 1 of the loaded list, none is for an index >= N, and a complete
\* run has submitted exactly N (every request is a live Future in the state
\* its submission leads to, where it is the latest one)
C13_ExactlyNRequests ==
  /\ submitted <= N
  /\ \A k \in DOMAIN futures : k \in 1..N /\ futures[k].word = pending_words[k]
  /\ submitted > 0 => submitted \in DOMAIN futures
  /\ pc \in {"result", "submit_next"} => submitted = i + 1
  /\ pc = "finished" => submitted = N

\* a complete run over a list of three entries has submitted three requests
C13_Witness == pc = "finished" /\ N = 3 /\ submitted = 3 /\ reviewsBegun = 3

\* the words whose review has completed
Completed == {pending_words[k] : k \in 1..i}

\* C14: in every state (the run can be aborted in any), each word whose
\* review has completed is a line of the done or the skipped file and is not a
\* line of the pending file, and the done and skipped files have gained one
\* line per completed review, one more at most for the word under review
C14_CompletedReviewsRecorded ==
  /\ \A w \in Completed :
       /\ w \in LineSet(doneFile) \cup LineSet(skippedFile)
       /\ w \notin LineSet(pendingFile)
  /\ LET gained == Len(Lines(Suffix(doneFile, ingested.done)))
                   + Len(Lines(Suffix(skippedFile, ingested.skipped)))
     IN gained = IF pc \in {"skip_remove", "done_remove"} THEN i + 1 ELSE i

(***************************************************************************)
(* The startup of _main, up to the first submit (lines 177-205), with new  *)
(* words to ingest                                                         *)
(***************************************************************************)
StartTexts == {<<NL>>, <<LA, NL>>, <<KA, SP, LA, NL, LA>>}

InitStart ==
  /\ pendingFile \in InitPendingFiles
  /\ doneFile \in InitDoneFiles
  /\ skippedFile \in InitSkippedFiles
  /\ notes = <<>>
  /\ collection \in [deck : BOOLEAN, cloze : BOOLEAN, basic : BOOLEAN]
  /\ NEW_WORDS \in StartTexts
  /\ pc = "start"
  /\ pending_words = <<>>
  /\ i = 0
  /\ futures = <<>>
  /\ completion_future = 0
  /\ submitted = 0
  /\ completion = NoCompletion
  /\ flashcards = 0
  /\ user_input = <<>>
  /\ j = 0
  /\ printed = 0
  /\ retrieved = 0
  /\ reviewsBegun = 0
  /\ reviewLog = <<>>
  /\ start = Files
  /\ ingested = Files
  /\ pre = Files
  /\ arg = <<>>

NextStart == LoadCollection \/ Ingest \/ StartPipeline

SpecStart == InitStart /\ [][NextStart]_vars

\* C15: when the deck, the cloze note type or the basic note type is not
\* found, _main stops at startup: nothing is appended to the pending file, no
\* request is submitted, no review starts and no file is modified
C15_ConfigErrorBeforeProcessing ==
  (~collection.deck \/ ~collection.cloze \/ ~collection.basic) =>
    /\ pc \in {"start", "config_error"}
    /\ Files = start
    /\ submitted = 0 /\ futures = <<>>
    /\ reviewsBegun = 0
    /\ pending_words = <<>>

\* the run has stopped for the basic note type alone, with a new word that
\* ingestion would have added
C15_Witness ==
  /\ pc = "config_error"
  /\ collection = [deck |-> TRUE, cloze |-> TRUE, basic |-> FALSE]
  /\ \E w \in NewWordSet(NEW_WORDS) :
       ~InList(w, LoadPendingWordsFromFile(pendingFile))

(***************************************************************************)
(* _get_new_words_from_multiline_string on its own: any short text, and a  *)
(* text with a comment, a blank line, a gloss and a repeated word          *)
(***************************************************************************)
TextChars == {LA, KA, SP, HASH, NL}
SampleText == <<HASH, SP, LA, NL, NL, LA, SP, KA, NL, LA, NL, KA, NL>>
WordStrings == Strings(TextChars, MaxTextLen) \cup {SampleText}

InitWords ==
  /\ NEW_WORDS \in WordStrings
  /\ arg = <<>>
  /\ pendingFile = <<>>
  /\ doneFile = <<>>
  /\ skippedFile = <<>>
  /\ notes = <<>>
  /\ collection = [deck |-> TRUE, cloze |-> TRUE, basic |-> TRUE]
  /\ pc = "unit_words"
  /\ pending_words = <<>>
  /\ i = 0
  /\ futures = <<>>
  /\ completion_future = 0
  /\ submitted = 0
  /\ completion = NoCompletion
  /\ flashcards = 0
  /\ user_input = <<>>
  /\ j = 0
  /\ printed = 0
  /\ retrieved = 0
  /\ reviewsBegun = 0
  /\ reviewLog = <<>>
  /\ start = Files
  /\ ingested = Files
  /\ pre = Files

\* the call of _get_new_words_from_multiline_string(NEW_WORDS), lines 51-59;
\* pending_words takes the list it returns
UnitGetNewWords ==
  /\ pc = "unit_words"
  /\ pending_words' \in GetNewWordsFromMultilineString(NEW_WORDS)
  /\ pc' = "unit_words_done"
  /\ UNCHANGED <<fixedVars, fileVars, execVars, selVars, i, completion, retrieved,
                 reviewsBegun, reviewLog, ingested, pre>>

NextWords == UnitGetNewWords

SpecWords == InitWords /\ [][NextWords]_vars

\* s[p..q] is the first whitespace-delimited token of its line: only blanks
\* lie between the start of the line and p, and the token ends at q
LineStartsBefore(s, p) ==
  \E b \in 1..p :
    /\ b = 1 \/ s[b - 1] = NL
    /\ \A m \in b..(p - 1) : IsSpace(s[m]) /\ s[m] # NL
IsFirstToken(s, p, q) ==
  /\ LineStartsBefore(s, p)
  /\ \A m \in p..q : ~IsSpace(s[m])
  /\ q = Len(s) \/ IsSpace(s[q + 1])

\* the first tokens of the lines that are neither blank nor comments
ClaimedWords(s) ==
  {SubSeq(s, p, q) : <<p, q>> \in
     {pq \in (1..Len(s)) \X (1..Len(s)) :
        pq[1] <= pq[2] /\ IsFirstToken(s, pq[1], pq[2]) /\ s[pq[1]] # HASH}}

\* the duplicate-free lists that enumerate the set S
OrdersOf(S) ==
  {p \in [1..Cardinality(S) -> S] : {p[k] : k \in 1..Cardinality(S)} = S}

\* C16: the list returned is duplicate-free and enumerates exactly the first
\* tokens of the lines that are neither blank nor (once trimmed) start with
\* "#", and every order of that set is a possible result
C16_IngestionPermutation ==
  /\ GetNewWordsFromMultilineString(NEW_WORDS) = OrdersOf(ClaimedWords(NEW_WORDS))
  /\ pc = "unit_words_done" =>
       /\ Distinct(pending_words)
       /\ WordsOf(pending_words) = ClaimedWords(NEW_WORDS)

\* the sample text has returned its two words, the later one first
C16_Witness ==
  /\ pc = "unit_words_done"
  /\ NEW_WORDS = SampleText
  /\ pending_words = <<<<KA>>, <<LA>>>>

(***************************************************************************)
(* The run under fair scheduling: the main thread and the worker thread    *)
(* keep running, every call of the chat API returns or raises, and at      *)
(* every prompt the user comes to enter an empty or valid selection        *)
(***************************************************************************)
\* a step of the main thread other than reading a line of input
MainStep ==
  \/ LoadCollection
  \/ Ingest
  \/ StartPipeline
  \/ GetResult
  \/ SubmitNext
  \/ BeginReview
  \/ AppendSkipped
  \/ RemoveSkipped
  \/ CreateFlashcard
  \/ AppendDone
  \/ RemoveDone

\* input() returns a line that line 125 or the validation of line 136 lets through
PromptAccepted == Prompt /\ pc' \in {"skip_append", "create"}

FairSpec ==
  /\ Spec
  /\ WF_vars(MainStep)
  /\ WF_vars(Worker)
  /\ WF_vars(PromptAccepted)

\* the failures the claim assumes away: a missing deck or note type, a
\* request that raises, a response that is not the expected JSON
AssumedAway == pc \in {"config_error", "request_failed", "malformed_response"}

\* C17: the run eventually ends after the review of word[N-1]; reviews are
\* begun one per entry in list order (the review under way for word[i] is the
\* (i+1)-th), and at the end N reviews have been made
C17_RunEnds ==
  /\ [](InReview => reviewsBegun = i + 1)
  /\ [](pc = "finished" => (i = N /\ reviewsBegun = N))
  /\ <>(pc = "finished" \/ AssumedAway)

\* the file holds no word: it is empty or all its lines are blank
NoWord(content) == \A l \in LineSet(content) : Strip(l) = <<>>

\* C18: when the pending file holds no word after ingestion, _main ends
\* without submitting a request, starting a review or writing to the done or
\* the skipped file
C18_NothingPending ==
  (NoWord(ingested.pending) /\ pc \notin {"start", "config_error", "ingest", "check"}) =>
    /\ pc = "finished"
    /\ submitted = 0
    /\ reviewsBegun = 0
    /\ doneFile = ingested.done /\ skippedFile = ingested.skipped

\* C19: the result the main thread waits for is that of the request numbered
\* i + 1, the one submitted for word[i], and the completion handed to the
\* review of word[i] is a result of a request for word[i], rendered from the
\* template for that word
C19_CompletionMatchesWord ==
  /\ pc = "result" =>
       /\ completion_future = i + 1
       /\ futures[completion_future].word = pending_words[i + 1]
  /\ (pc \in {"submit_next", "review"} \/ InReview) =>
       /\ retrieved = i + 1
       /\ completion.kind \in {"ok", "malformed"}
       /\ completion.word = Word
       /\ completion.prompt_path = PromptPath(Word)

\* word[0] is under review with its own completion while the result for a
\* different word[1] is already there
C19_Witness ==
  /\ pc = "prompt" /\ i = 0 /\ N >= 2
  /\ pending_words[1] # pending_words[2]
  /\ completion.word = pending_words[1]
  /\ futures[completion_future].state = "FINISHED"
  /\ futures[completion_future].result.word = pending_words[2]

\* every character of the word is in the hiragana block (U+3040..U+309F) or
\* the katakana block (U+30A0..U+30FF)
AllKana(w) == \A k \in 1..Len(w) : w[k] \in (12352..12447) \cup (12448..12543)

\* words over the characters at and next to the ends of the two blocks
KanaEdgeChars == {12351, 12352, 12447, 12448, 12543, 12544}
KanaEdgeWords == Strings(KanaEdgeChars, MaxWordLen)

\* the word of the review that made the latest notes
ReviewWord == IF ReviewEnded THEN Reviewed ELSE Word

\* C20: a word is handled as "basic" iff all its characters are kana: a
\* request rendered for it uses the basic template iff so, the notes of its
\* review use the basic note type with the fields Expression and Meaning iff
\* so and the cloze type with Expression and Extra otherwise, and the notes'
\* candidates come from a response to the template of the same kind
C20_KanaClassification ==
  /\ pc = "start" =>
       \A w \in KanaEdgeWords :
         /\ is_kana(w) <=> AllKana(w)
         /\ PromptPath(w) = "basic_prompt.txt" <=> AllKana(w)
  /\ \A k \in DOMAIN futures :
       futures[k].state # "PENDING" =>
         (futures[k].prompt_path = "basic_prompt.txt" <=> AllKana(futures[k].word))
         /\ futures[k].prompt_path \in {"basic_prompt.txt", "cloze_prompt.txt"}
  /\ (InReview \/ ReviewEnded) =>
       \A m \in (Len(pre.notes) + 1)..Len(notes) :
         LET note == notes[m]
             basic == AllKana(ReviewWord)
         IN /\ note.model = (IF basic THEN "Japanese Reading" ELSE "Japanese Cloze")
            /\ DOMAIN note.fields = (IF basic THEN {"Expression", "Meaning"}
                                     ELSE {"Expression", "Extra"})
            /\ note.fields.Expression[2] = ReviewWord
            /\ note.fields.Expression[3] = (IF basic THEN "basic_prompt.txt"
                                            ELSE "cloze_prompt.txt")

\* a cloze note has been made for a word with one kana and one non-kana
\* character
C20_Witness ==
  /\ ReviewEnded
  /\ Reviewed = <<KA, LA>>
  /\ Len(notes) > Len(pre.notes)
  /\ notes[Len(notes)].model = "Japanese Cloze"

====
